---- MODULE Spec2Model ----
(***************************************************************************)
(* The Tauri data-access layer of next-top-model (src-tauri/src/lib.rs):   *)
(* five commands that each open their own SQLite connection, run one       *)
(* SELECT and map the rows to typed records.                               *)
(*                                                                         *)
(* SQL text is modelled as a sequence of tokens, push_str as \o, the       *)
(* engine as an interpreter of those tokens over the stored tables, and    *)
(* rusqlite's FromSql / ToSql conversions by what they do to a value.      *)
(* Text values are sequences of character codes (compared as memcmp does); *)
(* REAL values are held in tenths.  A command is a sequence of steps       *)
(* (existence check, open, SELECT 1, prepare, bind, one step per row,      *)
(* return) between which the file at db_path may change and, under         *)
(* SpecConc, other invocations run.  A connection keeps the file it        *)
(* opened.                                                                 *)
(***************************************************************************)
EXTENDS Integers, Sequences, FiniteSets, TLC

\* ------------------------------------------------------------- bounds
\* Largest number of rows stored in one table.
MaxRows == 3
\* Number of invocations that may be in flight at once under SpecConc.
NumInvocations == 2

\* ------------------------------------------------------------- SQLite values
SqlNull == [t |-> "null", i |-> 0, s |-> <<>>]
\* An INTEGER that fits i32, and one that does not (its decimal digits; the
\* ones used are below 2^53, so reading them as f64 keeps the number).
SqlInt(n) == [t |-> "int", i |-> n, s |-> <<>>]
SqlWide(digits) == [t |-> "int64", i |-> 0, s |-> digits]
SqlReal(x) == [t |-> "real", i |-> x, s |-> <<>>]
SqlText(q) == [t |-> "text", i |-> 0, s |-> q]

\* ------------------------------------------------------------- Rust values
\* tag: "Val" a plain T, "Some" Option<T>::Some, "None" Option<T>::None.
RNone == [tag |-> "None", rt |-> "", i |-> 0, s |-> <<>>]
RVal(ty, i, s) == [tag |-> "Val", rt |-> ty, i |-> i, s |-> s]
RSome(r) == [r EXCEPT !.tag = "Some"]

Tok(lit, n) == [lit |-> lit, n |-> n]
Lit(lit) == Tok(lit, 0)

\* db_path of get_db_connection and test_db_connection.
db_path == Lit("/Volumes/Extreme SSD/next_top_model/backend/nfl_data.db")

\* ------------------------------------------------------------- records
Field(name, ty, opt) == [name |-> name, ty |-> ty, opt |-> opt]

Team ==
  << Field("team_uid", "String", FALSE), Field("city", "String", TRUE),
     Field("name", "String", FALSE), Field("abbreviation", "String", TRUE),
     Field("stadium_name", "String", TRUE), Field("stadium_capacity", "i32", TRUE),
     Field("conference", "String", TRUE), Field("division", "String", TRUE) >>

Game ==
  << Field("game_uid", "String", FALSE), Field("season", "i32", FALSE),
     Field("week", "f64", TRUE), Field("game_type", "String", TRUE),
     Field("home_team_uid", "String", TRUE), Field("away_team_uid", "String", TRUE),
     Field("game_datetime", "String", TRUE), Field("venue", "String", TRUE),
     Field("home_score", "i32", TRUE), Field("away_score", "i32", TRUE),
     Field("overtime", "i32", TRUE), Field("weather_temp", "f64", TRUE),
     Field("weather_condition", "String", TRUE), Field("attendance", "i32", TRUE) >>

TeamGameStat ==
  << Field("stat_uid", "String", FALSE), Field("game_uid", "String", FALSE),
     Field("team_uid", "String", FALSE), Field("is_home_team", "i32", TRUE),
     Field("total_yards", "i32", TRUE), Field("passing_yards", "i32", TRUE),
     Field("rushing_yards", "i32", TRUE), Field("first_downs", "i32", TRUE),
     Field("turnovers", "i32", TRUE), Field("penalties", "i32", TRUE) >>

TeamSeasonStat ==
  << Field("stat_uid", "String", FALSE), Field("team_uid", "String", FALSE),
     Field("season", "i32", FALSE), Field("wins", "i32", TRUE),
     Field("losses", "i32", TRUE), Field("ties", "i32", TRUE),
     Field("win_percentage", "f64", TRUE) >>

\* ------------------------------------------------------------- errors
\* A rusqlite::Error: its kind or SQLite result code, the message the engine
\* attached (if any) and the number it carries (column index, count).
Error(code, msg, n) == [code |-> code, msg |-> msg, n |-> n]
NoError == Error("", "", 0)
\* Display for rusqlite::Error: the attached message when there is one.
to_string(e) == Tok(IF e.msg # "" THEN e.msg ELSE e.code, e.n)

\* ------------------------------------------------------------- row.get
GetOk(r) == [ok |-> TRUE, val |-> r, err |-> ""]
GetErr(e) == [ok |-> FALSE, val |-> RNone, err |-> e]

\* <T as FromSql>::column_result for the three column types the records use.
ColumnResult(ty, v) ==
  CASE ty = "String" ->
         IF v.t = "text" THEN GetOk(RVal("String", 0, v.s))
         ELSE GetErr("InvalidColumnType")
    [] ty = "i32" ->
         IF v.t = "int" THEN GetOk(RVal("i32", v.i, <<>>))
         ELSE IF v.t = "int64" THEN GetErr("IntegralValueOutOfRange")
         ELSE GetErr("InvalidColumnType")
    [] ty = "f64" ->
         IF v.t = "real" THEN GetOk(RVal("f64", v.i, <<>>))
         ELSE IF v.t = "int" THEN GetOk(RVal("f64", 10 * v.i, <<>>))
         ELSE IF v.t = "int64" THEN GetOk(RVal("f64", 0, v.s))
         ELSE GetErr("InvalidColumnType")

RowGetOrDefault(f, v) ==
  IF v.t = "null" THEN GetOk(RSome(RVal(f.ty, 0, << >>)))
  ELSE LET g == ColumnResult(f.ty, v)
       IN  IF g.ok /\ f.opt THEN GetOk(RSome(g.val)) ELSE g

\* row.get(i)? into a field declared T or Option<T>.
RowGet(f, v) ==
  IF f.opt
  THEN IF v.t = "null" THEN GetOk(RNone)
       ELSE LET g == ColumnResult(f.ty, v)
            IN  IF g.ok THEN GetOk(RSome(g.val)) ELSE g
  ELSE ColumnResult(f.ty, v)

\* The closure given to query_map: the columns are read in order and the
\* first failing row.get(i)? is the closure's error.
MapRow(fields, row) ==
  LET bad == {i \in 1..Len(fields) : ~RowGet(fields[i], row[i]).ok}
  IN  IF bad = {}
      THEN [ok |-> TRUE,
            rec |-> [i \in 1..Len(fields) |-> RowGet(fields[i], row[i]).val],
            err |-> NoError]
      ELSE LET k == CHOOSE i \in bad : \A j \in bad : i <= j
           IN  [ok |-> FALSE, rec |-> <<>>,
                err |-> Error(RowGet(fields[k], row[k]).err, "", k - 1)]

\* ToSql of a boxed parameter.
ToSql(r) == IF r.rt = "String" THEN SqlText(r.s) ELSE SqlInt(r.i)

\* ------------------------------------------------------------- statements
ValidationQueryWriting == << "DELETE", "FROM", "games" >>

\* "SELECT 1" of get_db_connection.
ValidationQuery == << "SELECT", "1" >>

\* "SELECT COUNT(*) FROM games" of test_db_connection.
CountQuery == << "SELECT", "COUNT(*)", "FROM", "games" >>

\* The statement of get_teams.
TeamsQuery ==
  << "SELECT", "team_uid", "city", "name", "abbreviation", "stadium_name",
     "stadium_capacity", "conference", "division",
     "FROM", "teams",
     "ORDER BY", "conference", "division", "name" >>

GamesBase ==
  << "SELECT", "game_uid", "season", "week", "game_type", "home_team_uid",
     "away_team_uid", "game_datetime", "venue", "home_score", "away_score",
     "overtime", "weather_temp", "weather_condition", "attendance",
     "FROM", "games",
     "WHERE", "1=1" >>
GamesSeasonClause == << "AND", "season", "=", "?" >>
GamesTeamClauseHomeTwice ==
  << "AND", "(", "home_team_uid", "=", "?", "OR", "home_team_uid", "=", "?", ")" >>
GamesTeamClause ==
  << "AND", "(", "home_team_uid", "=", "?", "OR", "away_team_uid", "=", "?", ")" >>
GamesOrderByAscending == << "ORDER BY", "game_datetime" >>
GamesOrderBy == << "ORDER BY", "game_datetime", "DESC" >>

SeasonStatsBase ==
  << "SELECT", "stat_uid", "team_uid", "season", "wins", "losses", "ties",
     "win_percentage",
     "FROM", "team_season_stats",
     "WHERE", "1=1" >>
SeasonStatsSeasonClause == << "AND", "season", "=", "?" >>
SeasonStatsTeamClause == << "AND", "team_uid", "=", "?" >>
SeasonStatsOrderBy == << "ORDER BY", "season", "DESC", "win_percentage", "DESC" >>

GameStatsBase ==
  << "SELECT", "stat_uid", "game_uid", "team_uid", "is_home_team", "total_yards",
     "passing_yards", "rushing_yards", "first_downs", "turnovers", "penalties",
     "FROM", "team_game_stats",
     "WHERE", "1=1" >>
GameStatsGameClause == << "AND", "game_uid", "=", "?" >>
GameStatsTeamClause == << "AND", "team_uid", "=", "?" >>
GameStatsOrderBy == << "ORDER BY", "game_uid", "DESC" >>

GamesTeamParamsOnce(team) == << team >>

\* The values get_games pushes for a present team_uid: team.clone(), team.
GamesTeamParams(team) == << team, team >>

\* query and params as get_games leaves them at conn.prepare.
get_games_compose(season, team_uid) ==
  LET q1 == IF season.tag = "Some" THEN GamesBase \o GamesSeasonClause ELSE GamesBase
      p1 == IF season.tag = "Some" THEN << season >> ELSE << >>
      q2 == IF team_uid.tag = "Some" THEN q1 \o GamesTeamClause ELSE q1
      p2 == IF team_uid.tag = "Some" THEN p1 \o GamesTeamParams(team_uid) ELSE p1
  IN  [query |-> q2 \o GamesOrderBy, params |-> p2]

\* query and params as get_team_season_stats leaves them at conn.prepare.
get_team_season_stats_compose(season, team_uid) ==
  LET q1 == IF season.tag = "Some" THEN SeasonStatsBase \o SeasonStatsSeasonClause
            ELSE SeasonStatsBase
      p1 == IF season.tag = "Some" THEN << season >> ELSE << >>
      q2 == IF team_uid.tag = "Some" THEN q1 \o SeasonStatsTeamClause ELSE q1
      p2 == IF team_uid.tag = "Some" THEN Append(p1, team_uid) ELSE p1
  IN  [query |-> q2 \o SeasonStatsOrderBy, params |-> p2]

\* query and params as get_team_game_stats leaves them at conn.prepare.
get_team_game_stats_compose(game_uid, team_uid) ==
  LET q1 == IF game_uid.tag = "Some" THEN GameStatsBase \o GameStatsGameClause
            ELSE GameStatsBase
      p1 == IF game_uid.tag = "Some" THEN << game_uid >> ELSE << >>
      q2 == IF team_uid.tag = "Some" THEN q1 \o GameStatsTeamClause ELSE q1
      p2 == IF team_uid.tag = "Some" THEN Append(p1, team_uid) ELSE p1
  IN  [query |-> q2 \o GameStatsOrderBy, params |-> p2]

Compose(op, a1, a2) ==
  CASE op = "get_teams" -> [query |-> TeamsQuery, params |-> << >>]
    [] op = "get_games" -> get_games_compose(a1, a2)
    [] op = "get_team_season_stats" -> get_team_season_stats_compose(a1, a2)
    [] op = "get_team_game_stats" -> get_team_game_stats_compose(a1, a2)
    [] op = "test_db_connection" -> [query |-> CountQuery, params |-> << >>]

\* The record type each command maps its rows to.
RecordOf(op) ==
  CASE op = "get_teams" -> Team
    [] op = "get_games" -> Game
    [] op = "get_team_season_stats" -> TeamSeasonStat
    [] op = "get_team_game_stats" -> TeamGameStat

\* ------------------------------------------------------------- the engine
Has(q, tok) == \E i \in 1..Len(q) : q[i] = tok
IndexOf(q, tok) == CHOOSE i \in 1..Len(q) : q[i] = tok /\ \A j \in 1..(i - 1) : q[j] # tok
EndOf(q, toks) ==
  LET at == {i \in 1..Len(q) : q[i] \in toks} IN
  IF at = {} THEN Len(q) + 1 ELSE CHOOSE i \in at : \A j \in at : i <= j

SelectList(q) == SubSeq(q, 2, EndOf(q, {"FROM"}) - 1)
FromTable(q) == q[IndexOf(q, "FROM") + 1]
WhereClause(q) ==
  IF Has(q, "WHERE") THEN SubSeq(q, IndexOf(q, "WHERE") + 1, EndOf(q, {"ORDER BY"}) - 1)
  ELSE << >>
OrderByList(q) ==
  IF Has(q, "ORDER BY") THEN SubSeq(q, IndexOf(q, "ORDER BY") + 1, Len(q)) ELSE << >>
\* sqlite3_bind_parameter_count.
ParameterCount(q) == Cardinality({i \in 1..Len(q) : q[i] = "?"})
\* Only SELECT statements leave the database as it is.
IsRead(q) == Len(q) > 0 /\ q[1] = "SELECT"

\* Storage classes order NULL < numeric < text; text compares bytewise.
RECURSIVE LexLess(_, _)
LexLess(a, b) ==
  IF b = << >> THEN FALSE
  ELSE IF a = << >> THEN TRUE
  ELSE IF a[1] # b[1] THEN a[1] < b[1]
  ELSE LexLess(Tail(a), Tail(b))

Class(v) ==
  CASE v.t = "null" -> 0 [] v.t \in {"int", "int64", "real"} -> 1 [] v.t = "text" -> 2
Numeric(v) == IF v.t = "int" THEN 10 * v.i ELSE v.i
NumLess(a, b) ==
  IF b.t = "int64"
  THEN a.t # "int64" \/ Len(a.s) < Len(b.s) \/ (Len(a.s) = Len(b.s) /\ LexLess(a.s, b.s))
  ELSE a.t # "int64" /\ Numeric(a) < Numeric(b)

SqlLess(a, b) ==
  IF Class(a) # Class(b) THEN Class(a) < Class(b)
  ELSE CASE Class(a) = 0 -> FALSE
         [] Class(a) = 1 -> NumLess(a, b)
         [] Class(a) = 2 -> LexLess(a.s, b.s)

\* The = operator: NULL on either side is not true.
SqlEq(a, b) == a.t # "null" /\ b.t # "null" /\ ~SqlLess(a, b) /\ ~SqlLess(b, a)

\* The WHERE clause on one stored row; k is the next positional parameter.
RECURSIVE EvalWhere(_, _, _, _)
EvalWhere(w, binds, k, row) ==
  IF w = << >> THEN TRUE
  ELSE IF w[1] \in {"AND", "1=1"} THEN EvalWhere(Tail(w), binds, k, row)
  ELSE IF w[1] = "("
  THEN /\ SqlEq(row[w[2]], binds[k]) \/ SqlEq(row[w[6]], binds[k + 1])
       /\ EvalWhere(SubSeq(w, 10, Len(w)), binds, k + 2, row)
  ELSE /\ SqlEq(row[w[1]], binds[k])
       /\ EvalWhere(SubSeq(w, 4, Len(w)), binds, k + 1, row)

\* Whether row a sorts strictly before row b under the ORDER BY list o.
RECURSIVE RowBefore(_, _, _)
RowBefore(o, a, b) ==
  IF o = << >> THEN FALSE
  ELSE LET desc == Len(o) >= 2 /\ o[2] = "DESC"
           rest == SubSeq(o, IF desc THEN 3 ELSE 2, Len(o))
           lt == IF desc THEN SqlLess(b[o[1]], a[o[1]]) ELSE SqlLess(a[o[1]], b[o[1]])
           gt == IF desc THEN SqlLess(a[o[1]], b[o[1]]) ELSE SqlLess(b[o[1]], a[o[1]])
       IN  lt \/ (~gt /\ RowBefore(rest, a, b))

\* The rows a statement will yield: each stored row of the FROM table that
\* passes the WHERE clause, once.  COUNT(*) and SELECT 1 yield one row.
Selected(q, binds, d) ==
  IF ~Has(q, "FROM") THEN {}
  ELSE {r \in d[FromTable(q)] : EvalWhere(WhereClause(q), binds, 1, r)}

Project(q, r) == [i \in 1..Len(SelectList(q)) |-> r[SelectList(q)[i]]]

\* The database after a statement has run.
Execute(q, d) == IF IsRead(q) THEN d ELSE [d EXCEPT ![FromTable(q)] = {}]

\* ------------------------------------------------------------- stored rows
\* The rows the tables are filled from.  Among the game rows: two seasons,
\* a team at home, away and on both sides, two rows with the same datetime,
\* a row whose optional columns are all NULL, a row with NULL in the
\* non-optional season, and a row with text in home_score.  The other pools
\* hold a well-formed row, a row with NULL optional columns and a row that
\* does not decode (INTEGER beyond i32, text in an i32 column, NULL team_uid).
TEAM_A == << 65 >>
TEAM_B == << 66 >>
\* Datetime texts "1", "10", "2", "3": bytewise, "10" sorts before "2".
DT_1 == << 49 >>
DT_10 == << 49, 48 >>
DT_2 == << 50 >>
DT_3 == << 51 >>
Uid(k) == << 85, k >>

GameRow(k, season, week, home, away, dt, home_score, attendance) ==
  [game_uid |-> SqlText(Uid(k)), season |-> season, week |-> week,
   game_type |-> SqlText(<< 82 >>), home_team_uid |-> home, away_team_uid |-> away,
   game_datetime |-> dt, venue |-> SqlText(<< 86 >>), home_score |-> home_score,
   away_score |-> SqlInt(7), overtime |-> SqlInt(0), weather_temp |-> SqlReal(685),
   weather_condition |-> SqlText(<< 67 >>), attendance |-> attendance]

GamePool ==
  { GameRow(1, SqlInt(2023), SqlInt(1), SqlText(TEAM_A), SqlText(TEAM_B),
            SqlText(DT_2), SqlInt(21), SqlInt(70000)),
    GameRow(2, SqlInt(2023), SqlReal(20), SqlText(TEAM_B), SqlText(TEAM_A),
            SqlText(DT_10), SqlInt(0), SqlNull),
    GameRow(3, SqlInt(2022), SqlNull, SqlText(TEAM_A), SqlText(TEAM_A),
            SqlText(DT_2), SqlNull, SqlInt(0)),
    [ GameRow(4, SqlInt(2023), SqlNull, SqlNull, SqlNull, SqlNull, SqlNull, SqlNull)
        EXCEPT !.game_type = SqlNull, !.venue = SqlNull, !.away_score = SqlNull,
               !.overtime = SqlNull, !.weather_temp = SqlNull,
               !.weather_condition = SqlNull ],
    GameRow(5, SqlNull, SqlInt(1), SqlText(TEAM_A), SqlText(TEAM_B),
            SqlText(DT_1), SqlInt(1), SqlInt(1)),
    GameRow(6, SqlInt(2022), SqlInt(1), SqlText(TEAM_B), SqlText(TEAM_B),
            SqlText(DT_3), SqlText(<< 63 >>), SqlInt(1)) }

TeamRow(uid, name, conference, capacity) ==
  [team_uid |-> SqlText(uid), city |-> conference, name |-> name,
   abbreviation |-> conference, stadium_name |-> conference,
   stadium_capacity |-> capacity, conference |-> conference, division |-> conference]

TeamPool ==
  { TeamRow(TEAM_A, SqlText(<< 78 >>), SqlText(<< 67 >>), SqlInt(65000)),
    TeamRow(TEAM_B, SqlText(<< 77 >>), SqlNull, SqlNull),
    TeamRow(<< 67 >>, SqlText(<< 76 >>), SqlText(<< 65 >>),
            SqlWide(<< 2, 1, 4, 7, 4, 8, 3, 6, 4, 8 >>)) }

SeasonStatRow(k, team, season, wins, pct) ==
  [stat_uid |-> SqlText(Uid(k)), team_uid |-> SqlText(team), season |-> season,
   wins |-> wins, losses |-> wins, ties |-> wins, win_percentage |-> pct]

SeasonStatPool ==
  { SeasonStatRow(1, TEAM_A, SqlInt(2023), SqlInt(9), SqlReal(5)),
    SeasonStatRow(2, TEAM_B, SqlInt(2022), SqlNull, SqlNull),
    SeasonStatRow(3, TEAM_B, SqlInt(2023), SqlText(<< 63 >>), SqlInt(1)) }

GameStatRow(k, game, team, yards) ==
  [stat_uid |-> SqlText(Uid(k)), game_uid |-> SqlText(Uid(game)),
   team_uid |-> team, is_home_team |-> yards, total_yards |-> yards,
   passing_yards |-> yards, rushing_yards |-> yards, first_downs |-> yards,
   turnovers |-> yards, penalties |-> yards]

GameStatPool ==
  { GameStatRow(1, 1, SqlText(TEAM_A), SqlInt(300)),
    GameStatRow(2, 1, SqlText(TEAM_B), SqlNull),
    GameStatRow(3, 2, SqlNull, SqlInt(100)) }

UpTo(pool) == {t \in SUBSET pool : Cardinality(t) <= MaxRows}

\* The database every table of which holds a few well-formed rows.
BaseDb ==
  [teams |-> {r \in TeamPool : r.stadium_capacity.t # "int64"},
   games |-> {r \in GamePool : r.game_uid.s[2] <= 3},
   team_season_stats |-> {r \in SeasonStatPool : r.wins.t # "text"},
   team_game_stats |-> {r \in GameStatPool : r.team_uid.t = "text"}]

\* Databases that differ from BaseDb in the rows of one table.
DbPool ==
  {[BaseDb EXCEPT !.games = t] : t \in UpTo(GamePool)}
    \cup {[BaseDb EXCEPT !.teams = t] : t \in UpTo(TeamPool)}
    \cup {[BaseDb EXCEPT !.team_season_stats = t] : t \in UpTo(SeasonStatPool)}
    \cup {[BaseDb EXCEPT !.team_game_stats = t] : t \in UpTo(GameStatPool)}

\* The database of the concurrent runs: one game row decodes, one does not.
ConcDb == [BaseDb EXCEPT !.games = {r \in GamePool : r.game_uid.s[2] \in {1, 5}}]

\* Arguments the front end passes.
SomeI32(n) == RSome(RVal("i32", n, << >>))
SomeString(q) == RSome(RVal("String", 0, q))
SeasonArgs == {RNone, SomeI32(2022), SomeI32(2023)}
TeamArgs == {RNone, SomeString(TEAM_A), SomeString(TEAM_B)}
GameArgs == {RNone, SomeString(Uid(1)), SomeString(Uid(2))}

DataOps == {"get_teams", "get_games", "get_team_season_stats", "get_team_game_stats"}
Ops == DataOps \cup {"test_db_connection"}
Arg1(op) ==
  CASE op \in {"get_games", "get_team_season_stats"} -> SeasonArgs
    [] op = "get_team_game_stats" -> GameArgs
    [] OTHER -> {RNone}
Arg2(op) == IF op \in {"get_teams", "test_db_connection"} THEN {RNone} ELSE TeamArgs

AllCalls == {c \in Ops \X (SeasonArgs \cup GameArgs) \X TeamArgs :
               c[2] \in Arg1(c[1]) /\ c[3] \in Arg2(c[1])}

\* The calls of the concurrent runs: every command, get_games twice (over
\* ConcDb one of the two succeeds and the other fails on its second row).
ConcCalls ==
  { << "get_teams", RNone, RNone >>,
    << "get_games", SomeI32(2023), SomeString(TEAM_A) >>,
    << "get_games", RNone, SomeString(TEAM_A) >>,
    << "get_team_season_stats", SomeI32(2023), RNone >>,
    << "get_team_game_stats", RNone, SomeString(TEAM_B) >>,
    << "test_db_connection", RNone, RNone >> }

\* ------------------------------------------------------------- state
VARIABLES
  db,         \* the tables stored in the database file
  fileState,  \* what is at db_path: "missing", "healthy", "unopenable",
              \* "notadb" (not a database), "empty" (a database without tables)
  conns,      \* the open connections: [id, target]
  inv,        \* per invocation slot: the command's locals and position
  slots,      \* the invocation slots in use
  menu        \* the calls << op, a1, a2 >> the front end issues

vars == << db, fileState, conns, inv, slots, menu >>

FileStates == {"missing", "healthy", "unopenable", "notadb", "empty"}

NoResult == [kind |-> "none", rows |-> << >>, msg |-> << >>]
OkRows(rows) == [kind |-> "Ok", rows |-> rows, msg |-> << >>]
OkString(msg) == [kind |-> "Ok", rows |-> << >>, msg |-> msg]
ErrString(msg) == [kind |-> "Err", rows |-> << >>, msg |-> msg]

Idle ==
  [pc |-> "idle", op |-> "", a1 |-> RNone, a2 |-> RNone, conn |-> 0,
   query |-> << >>, params |-> << >>, rem |-> {}, acc |-> << >>,
   result |-> NoResult, exit |-> "", opened |-> FALSE, ran |-> << >>]

\* The error get_db_connection builds when the file does not exist.
NotFoundError == Error("SQLITE_CANTOPEN", "Database file not found", 0)

data_on_error_swallowed(e) == OkRows(<< >>)

\* .map_err(|e| e.to_string())? of the four data commands.
data_on_error(e) == ErrString(<< to_string(e) >>)

test_on_error_propagated(stage, e) == ErrString(<< to_string(e) >>)

\* The Err arms of test_db_connection's matches.
test_on_error(stage, e) ==
  OkString(<< Lit(CASE stage = "connect" -> "Database connection error: "
                    [] stage = "prepare" -> "Error preparing query: "
                    [] OTHER -> "Error querying games: "),
              to_string(e) >>)

on_error(op, stage, e) ==
  IF op = "test_db_connection" THEN test_on_error(stage, e) ELSE data_on_error(e)

NewConnIdShared(cs) == 1

\* Connection::open hands out a handle no open connection has.
NewConnId(cs) == CHOOSE n \in 1..(Cardinality(cs) + 1) : \A c \in cs : c.id # n

DropLeaked(cs, id) == cs

\* A Connection going out of scope closes it.
Drop(cs, id) == {c \in cs : c.id # id}

Target(cs, id) == IF \E c \in cs : c.id = id THEN (CHOOSE c \in cs : c.id = id).target
                  ELSE "closed"

CollectSkippingFailures(acc, m) ==
  [failed |-> FALSE, acc |-> IF m.ok THEN Append(acc, m.rec) ELSE acc]

\* games.push(game.map_err(..)?): a decoded row is appended, a failing one
\* ends the call and the rows collected so far are dropped with the Vec.
Collect(acc, m) ==
  IF m.ok THEN [failed |-> FALSE, acc |-> Append(acc, m.rec)]
  ELSE [failed |-> TRUE, acc |-> << >>]

\* The command returns: its locals, the connection among them, go out of scope.
ReturnedAfter(p, res, exit, ran) ==
  /\ inv' = [inv EXCEPT ![p].pc = "done", ![p].result = res, ![p].exit = exit,
                        ![p].conn = 0, ![p].rem = {}, ![p].acc = << >>,
                        ![p].ran = ran]
  /\ conns' = Drop(conns, inv[p].conn)

Returned(p, res, exit) == ReturnedAfter(p, res, exit, inv[p].ran)

\* ------------------------------------------------------------- actions
\* The front end invokes a command.
Invoke(p, op, a1, a2) ==
  /\ inv[p].pc = "idle"
  /\ << op, a1, a2 >> \in menu
  /\ inv' = [inv EXCEPT ![p] =
               [Idle EXCEPT !.pc = IF op = "test_db_connection" THEN "test_exists"
                                   ELSE "exists",
                            !.op = op, !.a1 = a1, !.a2 = a2]]
  /\ UNCHANGED << db, fileState, conns, slots, menu >>

\* test_db_connection: if !Path::new(db_path).exists().
TestExists(p) ==
  /\ inv[p].pc = "test_exists"
  /\ IF fileState = "missing"
     THEN Returned(p, OkString(<< Lit("Database file not found at: "), db_path >>),
                   "test_not_found")
     ELSE inv' = [inv EXCEPT ![p].pc = "exists"] /\ UNCHANGED conns
  /\ UNCHANGED << db, fileState, slots, menu >>

\* get_db_connection: if !Path::new(db_path).exists().
Exists(p) ==
  /\ inv[p].pc = "exists"
  /\ IF fileState = "missing"
     THEN Returned(p, on_error(inv[p].op, "connect", NotFoundError), "not_found")
     ELSE inv' = [inv EXCEPT ![p].pc = "open"] /\ UNCHANGED conns
  /\ UNCHANGED << db, fileState, slots, menu >>

\* get_db_connection: Connection::open(db_path)?.  The default flags create
\* the file when it is gone by now and its directory is still there.
Open(p) ==
  /\ inv[p].pc = "open"
  /\ \/ /\ fileState \in {"unopenable", "missing"}
        /\ Returned(p, on_error(inv[p].op, "connect",
                                Error("SQLITE_CANTOPEN", "unable to open database file", 0)),
                    "open")
        /\ UNCHANGED fileState
     \/ /\ fileState # "unopenable"
        /\ LET id == NewConnId(conns)
               target == IF fileState = "missing" THEN "empty" ELSE fileState
           IN  /\ conns' = conns \cup {[id |-> id, target |-> target]}
               /\ inv' = [inv EXCEPT ![p].pc = "validate", ![p].conn = id,
                                     ![p].opened = TRUE]
               /\ fileState' = target
  /\ UNCHANGED << db, slots, menu >>

\* get_db_connection: conn.query_row("SELECT 1", [], |row| row.get(0))?.
Validate(p) ==
  /\ inv[p].pc = "validate"
  /\ \/ /\ Target(conns, inv[p].conn) \in {"notadb", "closed"}
        /\ Returned(p, on_error(inv[p].op, "connect",
                                Error("SQLITE_NOTADB", "file is not a database", 0)),
                    "validate")
        /\ db' = db
     \/ /\ inv' = [inv EXCEPT ![p].pc = "prepare",
                              ![p].ran = Append(@, ValidationQuery)]
        /\ db' = Execute(ValidationQuery, db)
        /\ UNCHANGED conns
  /\ UNCHANGED << fileState, slots, menu >>

\* The query is composed and conn.prepare(&query) reads the schema.
Prepare(p) ==
  /\ inv[p].pc = "prepare"
  /\ LET c == Compose(inv[p].op, inv[p].a1, inv[p].a2)
         t == Target(conns, inv[p].conn)
     IN  IF t = "healthy"
         THEN /\ inv' = [inv EXCEPT ![p].pc = "query", ![p].query = c.query,
                                    ![p].params = c.params]
              /\ UNCHANGED conns
         ELSE Returned(p, on_error(inv[p].op, "prepare",
                                   IF t = "empty"
                                   THEN Error("SQLITE_ERROR", "no such table", 0)
                                   ELSE Error("SQLITE_NOTADB", "file is not a database", 0)),
                       "prepare")
  /\ UNCHANGED << db, fileState, slots, menu >>

\* stmt.query_map(&param_refs[..], ..): the parameters are bound; the rows
\* are produced as the iterator is advanced.
QueryMap(p) ==
  /\ inv[p].pc = "query"
  /\ inv[p].op \in DataOps
  /\ IF Len(inv[p].params) # ParameterCount(inv[p].query)
     THEN /\ Returned(p, data_on_error(Error("InvalidParameterCount", "",
                                             Len(inv[p].params))), "query")
          /\ db' = db
     ELSE /\ inv' = [inv EXCEPT ![p].pc = "rows",
                       ![p].ran = Append(@, inv[p].query),
                       ![p].rem = Selected(inv[p].query,
                                           [i \in 1..Len(inv[p].params) |->
                                              ToSql(inv[p].params[i])], db)]
          /\ db' = Execute(inv[p].query, db)
          /\ UNCHANGED conns
  /\ UNCHANGED << fileState, slots, menu >>

\* One turn of the for loop: the next row in ORDER BY order (rows that tie
\* come in whatever order the engine picks) is decoded and pushed.
NextRow(p) ==
  /\ inv[p].pc = "rows"
  /\ inv[p].rem # {}
  /\ \E r \in inv[p].rem :
       /\ \A r2 \in inv[p].rem : ~RowBefore(OrderByList(inv[p].query), r2, r)
       /\ LET m == MapRow(RecordOf(inv[p].op), Project(inv[p].query, r))
              c == Collect(inv[p].acc, m)
          IN  IF c.failed
              THEN Returned(p, data_on_error(m.err), "row")
              ELSE /\ inv' = [inv EXCEPT ![p].acc = c.acc, ![p].rem = @ \ {r}]
                   /\ UNCHANGED conns
  /\ UNCHANGED << db, fileState, slots, menu >>

\* Advancing the iterator fails in the engine: the volume went away.
StepFails(p) ==
  /\ inv[p].pc = "rows"
  /\ inv[p].rem # {}
  /\ fileState = "missing"
  /\ Returned(p, data_on_error(Error("SQLITE_IOERR", "disk I/O error", 0)), "step")
  /\ UNCHANGED << db, fileState, slots, menu >>

\* The iterator is exhausted: Ok(rows).
Finish(p) ==
  /\ inv[p].pc = "rows"
  /\ inv[p].rem = {}
  /\ Returned(p, OkRows(inv[p].acc), "ok")
  /\ UNCHANGED << db, fileState, slots, menu >>

\* test_db_connection: stmt.query_row([], |row| row.get::<i64>(0)).
TestQueryRow(p) ==
  /\ inv[p].pc = "query"
  /\ inv[p].op = "test_db_connection"
  /\ \/ /\ fileState = "missing"
        /\ Returned(p, test_on_error("query", Error("SQLITE_IOERR", "disk I/O error", 0)),
                    "step")
        /\ db' = db
     \/ /\ LET count == Cardinality(Selected(inv[p].query, << >>, db))
           IN  ReturnedAfter(p, OkString(<< Lit("Database connected successfully. Games count: "),
                                            Tok("{}", count) >>),
                             "ok", Append(inv[p].ran, inv[p].query))
        /\ db' = Execute(inv[p].query, db)
  /\ UNCHANGED << fileState, slots, menu >>

\* The result has been delivered to the front end; nothing of the call is kept.
Respond(p) ==
  /\ inv[p].pc = "done"
  /\ inv' = [inv EXCEPT ![p] = Idle]
  /\ UNCHANGED << db, fileState, conns, slots, menu >>

\* The file at db_path is replaced, removed, or its volume is unmounted.
FileChanges(k) ==
  /\ k # fileState
  /\ fileState' = k
  /\ UNCHANGED << db, conns, inv, slots, menu >>

Slots == 1..NumInvocations

Next ==
  \/ \E p \in Slots : \E op \in Ops : \E a1 \in Arg1(op) : \E a2 \in Arg2(op) :
       p \in slots /\ Invoke(p, op, a1, a2)
  \/ \E p \in Slots : p \in slots /\ TestExists(p)
  \/ \E p \in Slots : p \in slots /\ Exists(p)
  \/ \E p \in Slots : p \in slots /\ Open(p)
  \/ \E p \in Slots : p \in slots /\ Validate(p)
  \/ \E p \in Slots : p \in slots /\ Prepare(p)
  \/ \E p \in Slots : p \in slots /\ QueryMap(p)
  \/ \E p \in Slots : p \in slots /\ NextRow(p)
  \/ \E p \in Slots : p \in slots /\ StepFails(p)
  \/ \E p \in Slots : p \in slots /\ Finish(p)
  \/ \E p \in Slots : p \in slots /\ TestQueryRow(p)
  \/ \E p \in Slots : p \in slots /\ Respond(p)
  \/ \E k \in FileStates : FileChanges(k)

InitCommon ==
  /\ fileState \in FileStates
  /\ conns = {}
  /\ inv = [p \in slots |-> Idle]

\* One invocation at a time, over every database of DbPool.
Init ==
  /\ slots = {1}
  /\ menu = AllCalls
  /\ db \in DbPool
  /\ InitCommon

Spec == Init /\ [][Next]_vars

\* NumInvocations invocations in flight at once.
InitConc ==
  /\ slots = 1..NumInvocations
  /\ menu = ConcCalls
  /\ db = ConcDb
  /\ InitCommon

SpecConc == InitConc /\ [][Next]_vars

\* ============================================================= properties
Contains(msg, tok) == \E i \in 1..Len(msg) : msg[i] = tok
IsDone(p) == p \in slots /\ inv[p].pc = "done"
Present(a) == a.tag = "Some"

TableOf(op) ==
  CASE op = "get_teams" -> "teams"
    [] op = "get_games" -> "games"
    [] op = "get_team_season_stats" -> "team_season_stats"
    [] op = "get_team_game_stats" -> "team_game_stats"

\* What the filters of a call ask for, said of a stored row.
Wanted(op, a1, a2, r) ==
  CASE op = "get_teams" -> TRUE
    [] op = "get_games" ->
         /\ Present(a1) => r.season = SqlInt(a1.i)
         /\ Present(a2) => r.home_team_uid = SqlText(a2.s) \/ r.away_team_uid = SqlText(a2.s)
    [] op = "get_team_season_stats" ->
         /\ Present(a1) => r.season = SqlInt(a1.i)
         /\ Present(a2) => r.team_uid = SqlText(a2.s)
    [] op = "get_team_game_stats" ->
         /\ Present(a1) => r.game_uid = SqlText(a1.s)
         /\ Present(a2) => r.team_uid = SqlText(a2.s)

WantedRows(p) ==
  {r \in db[TableOf(inv[p].op)] : Wanted(inv[p].op, inv[p].a1, inv[p].a2, r)}

\* A stored value a field of the data model can hold.
WellTyped(f, v) ==
  \/ f.opt /\ v = SqlNull
  \/ f.ty = "String" /\ v.t = "text"
  \/ f.ty = "i32" /\ v.t = "int"
  \/ f.ty = "f64" /\ v.t \in {"int", "int64", "real"}

Decodable(op, r) ==
  \A k \in 1..Len(RecordOf(op)) : WellTyped(RecordOf(op)[k], r[RecordOf(op)[k].name])

\* Option<String> order: None below every Some, strings bytewise.
OptStringLess(a, b) ==
  \/ a.tag = "None" /\ b.tag = "Some"
  \/ a.tag = "Some" /\ b.tag = "Some" /\ LexLess(a.s, b.s)

\* C1: a successful get_games returns exactly the stored rows that satisfy
\* every given filter (all rows when none is given), each once, ordered by
\* game_datetime descending.
C1_GetGamesFilters ==
  \A p \in slots :
    (IsDone(p) /\ inv[p].op = "get_games" /\ inv[p].result.kind = "Ok") =>
      LET rows == inv[p].result.rows
          want == WantedRows(p)
      IN  /\ Len(rows) = Cardinality(want)
          /\ {rows[i][1].s : i \in 1..Len(rows)} = {r.game_uid.s : r \in want}
          /\ \A i, j \in 1..Len(rows) : i < j => ~OptStringLess(rows[i][7], rows[j][7])
          /\ (~Present(inv[p].a1) /\ ~Present(inv[p].a2)) => Len(rows) = Cardinality(db.games)

\* C1 witness: season 2023, no team, over two 2023 rows and one 2022 row:
\* the two 2023 rows come back, "2" before "10".
C1_Witness ==
  \E p \in slots :
    /\ IsDone(p) /\ inv[p].op = "get_games" /\ inv[p].result.kind = "Ok"
    /\ inv[p].a1 = SomeI32(2023) /\ inv[p].a2 = RNone
    /\ Cardinality(db.games) = 3
    /\ Cardinality({r \in db.games : r.season = SqlInt(2022)}) = 1
    /\ Len(inv[p].result.rows) = 2
    /\ inv[p].result.rows[1][7].s = DT_2 /\ inv[p].result.rows[2][7].s = DT_10

\* C2: with a team_uid filter a successful get_games returns no stored row
\* twice, and returns once every row (of the season asked for, if one is) in
\* which the team is home, away or both.
C2_TeamRowsOnce ==
  \A p \in slots :
    (IsDone(p) /\ inv[p].op = "get_games" /\ inv[p].result.kind = "Ok"
       /\ Present(inv[p].a2)) =>
      \A r \in db.games :
        LET n == Cardinality({i \in 1..Len(inv[p].result.rows) :
                                inv[p].result.rows[i][1].s = r.game_uid.s})
            team == SqlText(inv[p].a2.s)
        IN  /\ n <= 1
            /\ ( /\ r.home_team_uid = team \/ r.away_team_uid = team
                 /\ Present(inv[p].a1) => r.season = SqlInt(inv[p].a1.i) ) => n = 1

\* C2 witness: TEAM_A is home in one stored row, away in another and both in
\* a third, and all three are in the result.
C2_Witness ==
  \E p \in slots :
    /\ IsDone(p) /\ inv[p].op = "get_games" /\ inv[p].result.kind = "Ok"
    /\ inv[p].a1 = RNone /\ inv[p].a2 = SomeString(TEAM_A)
    /\ \E r \in db.games : r.home_team_uid = SqlText(TEAM_A) /\ r.away_team_uid = SqlText(TEAM_B)
    /\ \E r \in db.games : r.home_team_uid = SqlText(TEAM_B) /\ r.away_team_uid = SqlText(TEAM_A)
    /\ \E r \in db.games : r.home_team_uid = SqlText(TEAM_A) /\ r.away_team_uid = SqlText(TEAM_A)
    /\ Len(inv[p].result.rows) = 3

\* The error texts the engine and rusqlite produce in this model.
EngineTexts ==
  { Lit("unable to open database file"), Lit("file is not a database"),
    Lit("no such table"), Lit("disk I/O error") }

\* C3 as claimed: test_db_connection never returns Err; whenever it finds the
\* file missing, at its own existence check or at the one inside
\* get_db_connection, the string holds the configured path; on an engine
\* failure it holds the engine's text; on success the games row count.
C3_AsClaimed ==
  \A p \in slots :
    (IsDone(p) /\ inv[p].op = "test_db_connection") =>
      /\ inv[p].result.kind = "Ok"
      /\ inv[p].exit \in {"test_not_found", "not_found"} =>
           Contains(inv[p].result.msg, db_path)
      /\ inv[p].exit \in {"open", "validate", "prepare", "step"} =>
           \E t \in EngineTexts : Contains(inv[p].result.msg, t)
      /\ inv[p].exit = "ok" =>
           Contains(inv[p].result.msg, Tok("{}", Cardinality(db.games)))

\* C3 amended: test_db_connection never returns Err; when its own existence
\* check finds the file missing the string holds the configured path; when
\* the file is gone only at the check inside get_db_connection the string is
\* "Database connection error: Database file not found", without the path;
\* on an engine failure it holds the engine's text; on success the games row
\* count.
C3_NeverErr ==
  \A p \in slots :
    (IsDone(p) /\ inv[p].op = "test_db_connection") =>
      /\ inv[p].result.kind = "Ok"
      /\ inv[p].exit = "test_not_found" => Contains(inv[p].result.msg, db_path)
      /\ inv[p].exit = "not_found" =>
           /\ inv[p].result.msg = << Lit("Database connection error: "),
                                     Lit("Database file not found") >>
           /\ ~Contains(inv[p].result.msg, db_path)
      /\ inv[p].exit \in {"open", "validate", "prepare", "step"} =>
           \E t \in EngineTexts : Contains(inv[p].result.msg, t)
      /\ inv[p].exit = "ok" =>
           Contains(inv[p].result.msg, Tok("{}", Cardinality(db.games)))

\* C3 witness: the file went away between the two existence checks.
C3_Witness ==
  \E p \in slots :
    IsDone(p) /\ inv[p].op = "test_db_connection" /\ inv[p].exit = "not_found"

\* C4 as claimed: with the file missing a data command fails with an error
\* string that names the path, having opened no connection and run no
\* statement.
C4_AsClaimed ==
  \A p \in slots :
    (IsDone(p) /\ inv[p].op \in DataOps /\ inv[p].exit = "not_found") =>
      /\ inv[p].result.kind = "Err"
      /\ Contains(inv[p].result.msg, db_path)
      /\ ~inv[p].opened /\ inv[p].ran = << >>

\* C4 amended: with the file missing a data command fails with the error
\* string "Database file not found", which does not hold the path (the path
\* goes to stderr only), having opened no connection and run no statement.
C4_NotFound ==
  \A p \in slots :
    (IsDone(p) /\ inv[p].op \in DataOps /\ inv[p].exit = "not_found") =>
      /\ inv[p].result = ErrString(<< Lit("Database file not found") >>)
      /\ ~Contains(inv[p].result.msg, db_path)
      /\ ~inv[p].opened /\ inv[p].ran = << >>

\* C4 witness: each of the four data commands has returned from the missing
\* file; here get_team_game_stats.
C4_Witness ==
  \E p \in slots :
    /\ IsDone(p) /\ inv[p].op = "get_team_game_stats" /\ inv[p].exit = "not_found"
    /\ fileState = "missing"

\* C5: a data command that reached its rows returns Err, and no rows, when
\* any selected row fails to decode, wherever it stands in the result; and
\* returns Ok with a record for every selected row otherwise.  No Err
\* carries rows.
C5_AllOrNothing ==
  \A p \in slots :
    (IsDone(p) /\ inv[p].op \in DataOps) =>
      /\ inv[p].result.kind = "Err" => inv[p].result.rows = << >>
      /\ inv[p].exit \in {"row", "ok"} =>
           IF \E r \in WantedRows(p) : ~Decodable(inv[p].op, r)
           THEN inv[p].result.kind = "Err" /\ inv[p].exit = "row"
           ELSE /\ inv[p].result.kind = "Ok"
                /\ Len(inv[p].result.rows) = Cardinality(WantedRows(p))

\* C5 witness: get_games failed on a row that sorts after a decodable one.
C5_Witness ==
  \E p \in slots :
    /\ IsDone(p) /\ inv[p].op = "get_games" /\ inv[p].exit = "row"
    /\ \E good, bad \in WantedRows(p) :
         /\ Decodable("get_games", good) /\ ~Decodable("get_games", bad)
         /\ SqlLess(bad.game_datetime, good.game_datetime)
         /\ Cardinality(WantedRows(p)) = 2

\* The stored row a returned record was read from (first column is the key).
SourceOf(op, rec) == CHOOSE r \in db[TableOf(op)] : r[RecordOf(op)[1].name].s = rec[1].s

SameValue(ty, r, v) ==
  /\ r.rt = ty
  /\ CASE ty = "String" -> v.t = "text" /\ r.s = v.s
       [] ty = "i32" -> v.t = "int" /\ r.i = v.i
       [] ty = "f64" -> \/ v.t = "real" /\ r.i = v.i
                        \/ v.t = "int" /\ r.i = 10 * v.i
                        \/ v.t = "int64" /\ r.s = v.s

\* C8: in every returned record an optional field is None exactly when the
\* stored column is NULL and is Some of the stored value otherwise; and a
\* call that failed on a row failed on a selected row that holds something
\* else than a NULL in an optional column.
C8_OptionalNulls ==
  \A p \in slots :
    (IsDone(p) /\ inv[p].op \in DataOps) =>
      LET fs == RecordOf(inv[p].op)
          rows == inv[p].result.rows
      IN  /\ \A i \in 1..Len(rows) : \A k \in 1..Len(fs) :
               fs[k].opt =>
                 LET v == SourceOf(inv[p].op, rows[i])[fs[k].name]
                 IN  IF v = SqlNull THEN rows[i][k] = RNone
                     ELSE rows[i][k].tag = "Some" /\ SameValue(fs[k].ty, rows[i][k], v)
          /\ inv[p].exit = "row" =>
               \E r \in WantedRows(p) : ~Decodable(inv[p].op, r)

\* C8 witness: a result that holds the game row whose optional columns are
\* all NULL next to a row whose optional columns are set.
C8_Witness ==
  \E p \in slots :
    /\ IsDone(p) /\ inv[p].op = "get_games" /\ inv[p].result.kind = "Ok"
    /\ \E i, j \in 1..Len(inv[p].result.rows) :
         /\ \A k \in 3..14 : inv[p].result.rows[i][k] = RNone
         /\ \A k \in 3..14 : inv[p].result.rows[j][k].tag = "Some"

BaseOf(op) ==
  CASE op = "get_games" -> GamesBase
    [] op = "get_team_season_stats" -> SeasonStatsBase
    [] op = "get_team_game_stats" -> GameStatsBase
FilterColumns(op) ==
  CASE op = "get_games" -> << "season", "home_team_uid" >>
    [] op = "get_team_season_stats" -> << "season", "team_uid" >>
    [] op = "get_team_game_stats" -> << "game_uid", "team_uid" >>
FixedOrderBy(op) ==
  CASE op = "get_teams" -> << "ORDER BY", "conference", "division", "name" >>
    [] op = "get_games" -> << "ORDER BY", "game_datetime", "DESC" >>
    [] op = "get_team_season_stats" ->
         << "ORDER BY", "season", "DESC", "win_percentage", "DESC" >>
    [] op = "get_team_game_stats" -> << "ORDER BY", "game_uid", "DESC" >>
Count(b) == IF b THEN 1 ELSE 0

\* C9: the composed query is the base statement, one AND clause per present
\* filter in signature order, none for an absent one, then the fixed ORDER
\* BY; the bound values are as many as the placeholders, in placeholder
\* order, the games team filter giving its value twice.
C9_Composition ==
  \A p \in slots :
    (inv[p].pc \in {"query", "rows"} /\ inv[p].op \in DataOps \ {"get_teams"}) =>
      LET q == inv[p].query
          op == inv[p].op
          a1 == inv[p].a1
          a2 == inv[p].a2
          w == WhereClause(q)
          at1 == {i \in 1..Len(w) : w[i] = FilterColumns(op)[1]}
          at2 == {i \in 1..Len(w) : w[i] = FilterColumns(op)[2]}
      IN  /\ SubSeq(q, 1, Len(BaseOf(op))) = BaseOf(op)
          /\ SubSeq(q, Len(q) - Len(FixedOrderBy(op)) + 1, Len(q)) = FixedOrderBy(op)
          /\ Cardinality({i \in 1..Len(q) : q[i] = "AND"}) = Count(Present(a1)) + Count(Present(a2))
          /\ Cardinality(at1) = Count(Present(a1))
          /\ Cardinality(at2) = Count(Present(a2))
          /\ \A i \in at1 : \A j \in at2 : i < j
          /\ Len(inv[p].params) = ParameterCount(q)
          /\ inv[p].params =
               (IF Present(a1) THEN << a1 >> ELSE << >>)
                 \o (IF ~Present(a2) THEN << >>
                     ELSE IF op = "get_games" THEN << a2, a2 >> ELSE << a2 >>)

\* C9 witness: get_games with both filters, composed and not yet bound.
C9_Witness ==
  \E p \in slots :
    /\ inv[p].pc = "query" /\ inv[p].op = "get_games"
    /\ Present(inv[p].a1) /\ Present(inv[p].a2)
    /\ Len(inv[p].params) = 3

\* C10: an invocation that is not running holds no connection, and the open
\* connections are exactly those held by running invocations: none once
\* every call has returned, whichever way it returned.
C10_ConnectionsReleased ==
  /\ \A p \in slots : inv[p].pc \in {"idle", "done"} => inv[p].conn = 0
  /\ {c.id : c \in conns} = {inv[p].conn : p \in {x \in slots : inv[x].conn # 0}}
  /\ (\A p \in slots : inv[p].pc \in {"idle", "done"}) => conns = {}

\* C10 witness: a call returned from the failure of the SELECT 1 validation,
\* after its connection had been opened.
C10_Witness ==
  \E p \in slots :
    IsDone(p) /\ inv[p].exit = "validate" /\ inv[p].opened /\ conns = {}

\* C7: no step changes the stored tables, and every statement a call has run
\* is a SELECT.
C7_ReadOnly ==
  [][ /\ db' = db
      /\ \A p \in slots : \A i \in 1..Len(inv'[p].ran) : IsRead(inv'[p].ran[i]) ]_vars

\* C7 witness: a data command has run the validation query and its SELECT to
\* the end over a non-empty table.
C7_Witness ==
  \E p \in slots :
    /\ IsDone(p) /\ inv[p].op = "get_games" /\ inv[p].exit = "ok"
    /\ Len(inv[p].ran) = 2 /\ Len(inv[p].result.rows) = 3

\* The results a call can return when it runs alone against database d,
\* whatever the file at db_path does meanwhile.
SoloOutcome(op, a1, a2, d, res) ==
  LET sel == IF op \in DataOps THEN {r \in d[TableOf(op)] : Wanted(op, a1, a2, r)} ELSE {}
      row(r) == [k \in 1..Len(RecordOf(op)) |-> r[RecordOf(op)[k].name]]
      src(rec) == CHOOSE r \in sel : MapRow(RecordOf(op), row(r)).rec = rec
      failure == \E t \in EngineTexts \cup {Lit("Database file not found")} :
                   IF op \in DataOps THEN res = ErrString(<< t >>)
                   ELSE res.kind = "Ok" /\ Len(res.msg) = 2 /\ res.msg[2] = t
  IN  \/ failure
      \/ /\ op = "test_db_connection"
         /\ \/ res = OkString(<< Lit("Database file not found at: "), db_path >>)
            \/ res = OkString(<< Lit("Database connected successfully. Games count: "),
                                 Tok("{}", Cardinality(d.games)) >>)
      \/ /\ op \in DataOps
         /\ \E bad \in sel :
              /\ ~Decodable(op, bad)
              /\ res = ErrString(<< to_string(MapRow(RecordOf(op), row(bad)).err) >>)
      \/ /\ op \in DataOps
         /\ \A r \in sel : Decodable(op, r)
         /\ res.kind = "Ok" /\ res.msg = << >>
         /\ Len(res.rows) = Cardinality(sel)
         /\ \A r \in sel : \E i \in 1..Len(res.rows) :
              res.rows[i] = MapRow(RecordOf(op), row(r)).rec
         /\ \A i, j \in 1..Len(res.rows) :
              i < j => ~RowBefore(Tail(FixedOrderBy(op)), src(res.rows[j]), src(res.rows[i]))

\* C6: however the steps of concurrent invocations interleave, an
\* invocation that holds a connection holds an open one that no other
\* invocation holds, no step changes the locals of two invocations, and a
\* returned result is one the call can return running alone against the same
\* database.
C6_Isolation ==
  /\ [](\A p \in slots :
          /\ inv[p].conn # 0 =>
               /\ \E c \in conns : c.id = inv[p].conn
               /\ \A q \in slots \ {p} : inv[q].conn # inv[p].conn
          /\ IsDone(p) => SoloOutcome(inv[p].op, inv[p].a1, inv[p].a2, db, inv[p].result))
  /\ [][\A p, q \in slots : p # q => inv'[p] = inv[p] \/ inv'[q] = inv[q]]_vars

\* C6 witness: one invocation has returned its rows while another, holding
\* its own connection, is in the middle of its row loop.
C6_Witness ==
  \E p, q \in slots :
    /\ p # q
    /\ IsDone(p) /\ inv[p].exit = "ok" /\ inv[p].op = "get_games"
    /\ inv[q].pc = "rows" /\ inv[q].conn # 0 /\ Len(inv[q].acc) = 1

====
